---- MODULE Spec2Model ----
(***************************************************************************)
(* Model of the transaction ledger with Merkle-proof receipts of           *)
(* Backend/main.py: the tree builder merkle_root_and_proofs, the verifier  *)
(* verify_receipt, the sealer seal_block and the handlers around them.     *)
(*                                                                         *)
(* Byte strings and hex digests are modelled as terms <<tag, args>>: the   *)
(* tag is a string, args a tuple of terms (or of atoms whose type the tag  *)
(* fixes).  sha256 is a free constructor, hence collision free, and the    *)
(* encodings (str.encode, bytes.fromhex, concatenation, json) stay         *)
(* distinct from one another, as they are on real byte strings.            *)
(***************************************************************************)
EXTENDS Integers, Sequences, FiniteSets, TLC

\* ------------------------------------------------------------------ bounds
\* Largest batch given to the tree builder on its own.
MaxLeaves == 4
\* Number of distinct leaf byte strings the batches are drawn from.
NumLeafValues == 3

\* ------------------------------------------------------------------- bytes
\* b"" (hashed for the root of an empty tree).
EmptyBytes == <<"empty", <<>>>>

\* s.encode(): the ASCII bytes of a (hex) string, 64 bytes for a digest.
Encode(s) == <<"ascii", <<s>>>>

\* str.lower() of a hex string; sha256_hex already yields lowercase, an
\* upper-cased copy of a digest d is the term <<"upper", <<d>>>>.
Lower(h) == IF h[1] = "upper" THEN h[2][1] ELSE h

\* bytes.fromhex(h): the raw bytes a hex string denotes (case-insensitive).
FromHex(h) == <<"raw", <<Lower(h)>>>>

\* A string that bytes.fromhex rejects (a non-hex character, an odd length).
NotHex == <<"nothex", <<>>>>

\* Whether bytes.fromhex accepts the string: digests, their prefixes and
\* upper-cased copies are hex strings.
IsHex(h) == h[1] \in {"sha256", "upper", "prefix16"}

\* a + b on bytes.
Concat(a, b) == <<"cat", <<a, b>>>>

\* sha256_hex(data): the lowercase hex digest, collision free.
Sha256Hex(data) == <<"sha256", <<data>>>>

\* ------------------------------------------------------------ tree builder
\* The proof items the builder records: {"dir": ..., "hash": ...}.
ProofItem(d, h) == [dir |-> d, hash |-> h]

\* Python's range(len(s)) as 0-based positions of a TLA+ sequence.
At(s, i) == s[i + 1]

\* proofs[k].append(item), 0-based k.
AppendProof(proofs, k, item) ==
    [proofs EXCEPT ![k + 1] = Append(@, item)]

\* A loop body that promotes the last node of an odd level unpaired.
PairStepPromotesOdd(i, level, idx_map, st) ==
    LET n      == Len(level)
        left   == At(level, i)
        right  == IF i + 1 < n THEN At(level, i + 1) ELSE left
        parent == IF i + 1 < n
                  THEN Sha256Hex(Concat(FromHex(left), FromHex(right)))
                  ELSE left
        nl     == Append(st.next_level, parent)
        pos2   == IF i + 1 < n THEN i + 1 ELSE i
        p1     == IF i < Len(idx_map)
                  THEN AppendProof(st.proofs, At(idx_map, i), ProofItem("R", right))
                  ELSE st.proofs
        p2     == IF pos2 < Len(idx_map)
                  THEN AppendProof(p1, At(idx_map, pos2), ProofItem("L", left))
                  ELSE p1
        m1     == IF i < Len(idx_map)
                  THEN Append(st.next_idx_map, Len(nl) - 1)
                  ELSE st.next_idx_map
        m2     == IF i + 1 < Len(idx_map)
                  THEN Append(m1, Len(nl) - 1)
                  ELSE m1
    IN  [proofs |-> p2, next_level |-> nl, next_idx_map |-> m2]

\* A loop body whose parent hashes the left node twice.
PairStepLeftTwice(i, level, idx_map, st) ==
    LET n      == Len(level)
        left   == At(level, i)
        right  == IF i + 1 < n THEN At(level, i + 1) ELSE left
        parent == Sha256Hex(Concat(FromHex(left), FromHex(left)))
        nl     == Append(st.next_level, parent)
        pos2   == IF i + 1 < n THEN i + 1 ELSE i
        p1     == IF i < Len(idx_map)
                  THEN AppendProof(st.proofs, At(idx_map, i), ProofItem("R", right))
                  ELSE st.proofs
        p2     == IF pos2 < Len(idx_map)
                  THEN AppendProof(p1, At(idx_map, pos2), ProofItem("L", left))
                  ELSE p1
        m1     == IF i < Len(idx_map)
                  THEN Append(st.next_idx_map, Len(nl) - 1)
                  ELSE st.next_idx_map
        m2     == IF i + 1 < Len(idx_map)
                  THEN Append(m1, Len(nl) - 1)
                  ELSE m1
    IN  [proofs |-> p2, next_level |-> nl, next_idx_map |-> m2]

\* A loop body whose parent hashes the right node twice.
PairStepRightTwice(i, level, idx_map, st) ==
    LET n      == Len(level)
        left   == At(level, i)
        right  == IF i + 1 < n THEN At(level, i + 1) ELSE left
        parent == Sha256Hex(Concat(FromHex(right), FromHex(right)))
        nl     == Append(st.next_level, parent)
        pos2   == IF i + 1 < n THEN i + 1 ELSE i
        p1     == IF i < Len(idx_map)
                  THEN AppendProof(st.proofs, At(idx_map, i), ProofItem("R", right))
                  ELSE st.proofs
        p2     == IF pos2 < Len(idx_map)
                  THEN AppendProof(p1, At(idx_map, pos2), ProofItem("L", left))
                  ELSE p1
        m1     == IF i < Len(idx_map)
                  THEN Append(st.next_idx_map, Len(nl) - 1)
                  ELSE st.next_idx_map
        m2     == IF i + 1 < Len(idx_map)
                  THEN Append(m1, Len(nl) - 1)
                  ELSE m1
    IN  [proofs |-> p2, next_level |-> nl, next_idx_map |-> m2]

\* One iteration of the "for i in range(0, len(level), 2)" body: st holds
\* proofs, next_level and next_idx_map; level and idx_map are read only.
PairStep(i, level, idx_map, st) ==
    LET n      == Len(level)
        left   == At(level, i)
        right  == IF i + 1 < n THEN At(level, i + 1) ELSE left
        parent == Sha256Hex(Concat(FromHex(left), FromHex(right)))
        nl     == Append(st.next_level, parent)
        pos2   == IF i + 1 < n THEN i + 1 ELSE i
        p1     == IF i < Len(idx_map)
                  THEN AppendProof(st.proofs, At(idx_map, i), ProofItem("R", right))
                  ELSE st.proofs
        p2     == IF pos2 < Len(idx_map)
                  THEN AppendProof(p1, At(idx_map, pos2), ProofItem("L", left))
                  ELSE p1
        m1     == IF i < Len(idx_map)
                  THEN Append(st.next_idx_map, Len(nl) - 1)
                  ELSE st.next_idx_map
        m2     == IF i + 1 < Len(idx_map)
                  THEN Append(m1, Len(nl) - 1)
                  ELSE m1
    IN  [proofs |-> p2, next_level |-> nl, next_idx_map |-> m2]

RECURSIVE PairLoop(_, _, _, _)
\* The whole for loop over one level, from pair position i on.
PairLoop(i, level, idx_map, st) ==
    IF i >= Len(level)
    THEN st
    ELSE PairLoop(i + 2, level, idx_map, PairStep(i, level, idx_map, st))

RECURSIVE LevelLoop(_, _, _)
\* The "while len(level) > 1" loop.
LevelLoop(level, proofs, idx_map) ==
    IF Len(level) <= 1
    THEN [level |-> level, proofs |-> proofs]
    ELSE LET st == PairLoop(0, level, idx_map,
                            [proofs |-> proofs, next_level |-> <<>>,
                             next_idx_map |-> <<>>])
         IN  LevelLoop(st.next_level, st.proofs, st.next_idx_map)

\* merkle_root_and_proofs(leaves): [root, proofs], proofs[i] for leaves[i].
MerkleRootAndProofs(leaves) ==
    IF leaves = <<>>
    THEN [root |-> Sha256Hex(EmptyBytes), proofs |-> <<>>]
    ELSE LET level0 == [k \in 1..Len(leaves) |-> Sha256Hex(leaves[k])]
             out    == LevelLoop(level0,
                                 [k \in 1..Len(leaves) |-> <<>>],
                                 [k \in 1..Len(leaves) |-> k - 1])
         IN  [root   |-> IF out.level # <<>> THEN out.level[1]
                         ELSE Sha256Hex(EmptyBytes),
              proofs |-> out.proofs]

\* ---------------------------------------------------------------- verifier
\* A loop body that puts the sibling on the right whatever the side tag.
FoldStepIgnoresDir(tx_hash, item) ==
    Sha256Hex(Concat(FromHex(tx_hash), FromHex(item.hash)))

\* One pass of the verifier's loop over a proof item.
FoldStep(tx_hash, item) ==
    IF item.dir = "L"
    THEN Sha256Hex(Concat(FromHex(item.hash), FromHex(tx_hash)))
    ELSE Sha256Hex(Concat(FromHex(tx_hash), FromHex(item.hash)))

RECURSIVE FoldProof(_, _)
\* The verifier's loop: the digest after replaying the proof from tx_hash.
FoldProof(tx_hash, proof) ==
    IF proof = <<>>
    THEN tx_hash
    ELSE FoldProof(FoldStep(tx_hash, Head(proof)), Tail(proof))

\* ------------------------------------------------------------------ ledger
\* Bounds of the ledger model.
\* Stored transactions.
MaxTx == 6
\* Irregularities in one run: storage failures at a commit, readings of the
\* clock that have not advanced since the reading before, and submissions
\* that carry an empty signature or name a wallet that does not exist.
MaxFaults == 1
\* Clock readings (time.time()) per whole second (int(time.time())).
TicksPerSecond == 2
\* No run reads the clock more often than this.
MaxClock == 2 * MaxTx + MaxFaults + 1

\* len(pending_txs) >= 3 in submit_transaction.
SealThreshold == 3

\* Python's None / SQL NULL in a column that otherwise holds an id.
NoneId == <<"None", <<>>>>
\* Optional[str] None for a wallet's pubkey_pqc.
NoneStr == "<None>"

\* str(time.time()).encode() for the clock reading t.
TimeBytes(t) == <<"str", <<t>>>>

\* The first 16 hex characters of a digest.
Prefix16(h) == <<"prefix16", <<h>>>>

\* generate_id() when time.time() reads t.
GenerateId(t) == Prefix16(Sha256Hex(TimeBytes(t)))

\* int(time.time()) for the clock reading t.
IntTime(t) == t \div TicksPerSecond

\* A wallet reference a client may send that names no wallet.
GhostWallet == <<"ghost", <<>>>>

\* TransactionPayload.
Payload(from, to, amount, currency, nonce, timestamp) ==
    [from_wallet |-> from, to |-> to, amount |-> amount,
     currency |-> currency, nonce |-> nonce, timestamp |-> timestamp]

\* payload.json().encode(): the canonical bytes of a payload.
PayloadBytes(p) == <<"json", <<p>>>>

\* json.dumps of a proof (a list of dicts) and json.loads of that text.
JsonDumps(x) == [json_text_of |-> x]
JsonLoads(s) == s.json_text_of

\* The tables of the database as one value.
Db(w, t, b, p) ==
    [wallets |-> w, transactions |-> t, blocks |-> b, merkle_proofs |-> p]

\* Whether the values of a column (a sequence, one per row) are distinct.
Unique(column) ==
    \A i, j \in 1..Len(column) : column[i] = column[j] => i = j

\* The columns id, index and tx_id of a table.
IdColumn(rows) == [i \in 1..Len(rows) |-> rows[i].id]
IndexColumn(rows) == [i \in 1..Len(rows) |-> rows[i].index]
TxIdColumn(rows) == [i \in 1..Len(rows) |-> rows[i].tx_id]

\* The primary keys and the unique column: Wallet.id, Transaction.id,
\* Block.id, Block.index (unique=True), MerkleProof.tx_id.
ConstraintsHold(d) ==
    /\ Unique(IdColumn(d.wallets))
    /\ Unique(IdColumn(d.transactions))
    /\ Unique(IdColumn(d.blocks))
    /\ Unique(IndexColumn(d.blocks))
    /\ Unique(TxIdColumn(d.merkle_proofs))

\* A commit without a transaction around it: the block inserted before the
\* failure stays.
CommitKeepsBlock(d, image, storage_ok) ==
    IF storage_ok /\ ConstraintsHold(image)
    THEN [db |-> image, raised |-> FALSE]
    ELSE [db |-> [d EXCEPT !.blocks = image.blocks], raised |-> TRUE]

\* A commit without a transaction around it: the rows of transactions
\* written before the failure stay.
CommitKeepsTransactions(d, image, storage_ok) ==
    IF storage_ok /\ ConstraintsHold(image)
    THEN [db |-> image, raised |-> FALSE]
    ELSE [db |-> [d EXCEPT !.transactions = image.transactions], raised |-> TRUE]

\* db.commit() of a session (autocommit=False, autoflush=False) whose unit
\* of work turns the committed database d into image: everything is written
\* in one transaction; when the flush violates a constraint or the storage
\* fails, the commit raises and the session is rolled back when get_db
\* closes it.
Commit(d, image, storage_ok) ==
    IF storage_ok /\ ConstraintsHold(image)
    THEN [db |-> image, raised |-> FALSE]
    ELSE [db |-> d, raised |-> TRUE]

RECURSIVE PendingFrom(_, _)
\* The positions from k on of the rows of txs with status pending, ascending.
PendingFrom(txs, k) ==
    IF k > Len(txs) THEN <<>>
    ELSE IF txs[k].status = "pending"
         THEN <<k>> \o PendingFrom(txs, k + 1)
         ELSE PendingFrom(txs, k + 1)

\* The pending rows, newest first.
PendingPositionsNewestFirst(txs) ==
    LET ps == PendingFrom(txs, 1)
    IN  [i \in 1..Len(ps) |-> ps[Len(ps) + 1 - i]]

\* A pending query that misses the newest pending row.
PendingPositionsButNewest(txs) ==
    LET ps == PendingFrom(txs, 1)
    IN  SubSeq(ps, 1, Len(ps) - 1)

\* Query(Transaction).filter(status == "pending").all(): the positions of the
\* pending rows, in the order of SQLite's table scan, which is the order of
\* the rowids, i.e. of insertion (no row is ever deleted).
PendingPositions(txs) == PendingFrom(txs, 1)

\* The position of k in the sequence of positions ps (0 when absent).
IndexIn(ps, k) ==
    IF \E i \in 1..Len(ps) : ps[i] = k
    THEN CHOOSE i \in 1..Len(ps) : ps[i] = k
    ELSE 0

\* A block index that is the number of blocks so far.
BlockIndexNoIncrement(d) == Len(d.blocks)

\* block_index = db.query(Block).count() + 1.
BlockIndex(d) == Len(d.blocks) + 1

\* A confirmation that forgets the block.
ConfirmRowNoBlockId(tx, block_id) == [tx EXCEPT !.status = "confirmed"]

\* A confirmation that forgets the status.
ConfirmRowKeepsPending(tx, block_id) == [tx EXCEPT !.block_id = block_id]

\* tx.status = "confirmed"; tx.block_id = block_id.
ConfirmRow(tx, block_id) ==
    [tx EXCEPT !.status = "confirmed", !.block_id = block_id]

\* A seal whose tree is built over the payload hashes of all stored
\* transactions instead of those of the snapshot.
SealImageTreeOfAll(d, pending, block_id, sealed_at) ==
    LET tx_hashes   == [k \in 1..Len(d.transactions) |->
                           Encode(d.transactions[k].payload_hash)]
        mr          == MerkleRootAndProofs(tx_hashes)
        block       == [id |-> block_id, index |-> BlockIndex(d),
                        sealed_at |-> sealed_at, merkle_root |-> mr.root]
        new_txs     == [k \in 1..Len(d.transactions) |->
                           IF IndexIn(pending, k) # 0
                           THEN ConfirmRow(d.transactions[k], block_id)
                           ELSE d.transactions[k]]
        new_proofs  == [i \in 1..Len(pending) |->
                           [tx_id      |-> d.transactions[pending[i]].id,
                            block_id   |-> block_id,
                            proof_json |-> JsonDumps(mr.proofs[i])]]
    IN  [d EXCEPT !.blocks = Append(@, block),
                  !.transactions = new_txs,
                  !.merkle_proofs = @ \o new_proofs]

\* The session's image of the database at the commit of seal_block, for the
\* snapshot pending (positions), the block id and the seal time.
SealImage(d, pending, block_id, sealed_at) ==
    LET tx_hashes   == [i \in 1..Len(pending) |->
                           Encode(d.transactions[pending[i]].payload_hash)]
        mr          == MerkleRootAndProofs(tx_hashes)
        block       == [id |-> block_id, index |-> BlockIndex(d),
                        sealed_at |-> sealed_at, merkle_root |-> mr.root]
        new_txs     == [k \in 1..Len(d.transactions) |->
                           IF IndexIn(pending, k) # 0
                           THEN ConfirmRow(d.transactions[k], block_id)
                           ELSE d.transactions[k]]
        new_proofs  == [i \in 1..Len(pending) |->
                           [tx_id      |-> d.transactions[pending[i]].id,
                            block_id   |-> block_id,
                            proof_json |-> JsonDumps(mr.proofs[i])]]
    IN  [d EXCEPT !.blocks = Append(@, block),
                  !.transactions = new_txs,
                  !.merkle_proofs = @ \o new_proofs]

\* seal_block without the early return on an empty snapshot.
SealBlockAlways(d, t_id, t_seal, storage_ok) ==
    Commit(d, SealImage(d, PendingPositions(d.transactions),
                        GenerateId(t_id), IntTime(t_seal)), storage_ok)

\* A seal_block that returns without sealing.
SealBlockSkipped(d, t_id, t_seal, storage_ok) == [db |-> d, raised |-> FALSE]

\* seal_block(db) on the committed database d, with the clock readings of
\* generate_id() and of sealed_at: the database afterwards and whether the
\* call raised.
SealBlock(d, t_id, t_seal, storage_ok) ==
    LET pending == PendingPositions(d.transactions)
    IN  IF pending = <<>>
        THEN [db |-> d, raised |-> FALSE]
        ELSE Commit(d, SealImage(d, pending, GenerateId(t_id), IntTime(t_seal)),
                    storage_ok)

\* A row that is born confirmed.
NewTransactionConfirmed(tx_id, p, sig) ==
    [id |-> tx_id, wallet_id |-> p.from_wallet, to_wallet |-> p.to,
     amount |-> p.amount, currency |-> p.currency, nonce |-> p.nonce,
     timestamp |-> p.timestamp,
     payload_hash |-> Sha256Hex(PayloadBytes(p)),
     sig_pqc |-> sig, status |-> "confirmed", block_id |-> NoneId]

\* The row submit_transaction adds for a payload and a signature.
NewTransaction(tx_id, p, sig) ==
    [id |-> tx_id, wallet_id |-> p.from_wallet, to_wallet |-> p.to,
     amount |-> p.amount, currency |-> p.currency, nonce |-> p.nonce,
     timestamp |-> p.timestamp,
     payload_hash |-> Sha256Hex(PayloadBytes(p)),
     sig_pqc |-> sig, status |-> "pending", block_id |-> NoneId]

\* .filter(column == key).first() for a column (a sequence, one value per
\* row) of the table rows: <<>> for None, or <<row>>.
First(rows, column, key) ==
    IF \E i \in 1..Len(rows) : column[i] = key
    THEN <<rows[CHOOSE i \in 1..Len(rows) :
                  /\ column[i] = key
                  /\ \A j \in 1..(i - 1) : column[j] # key]>>
    ELSE <<>>

\* An HTTP response: status code, detail of an error, body of a success.
Response(status, detail, body) ==
    [status |-> status, detail |-> detail, body |-> body]

\* get_receipt answering a pending transaction like an unknown one.
GetReceiptNoPendingCheck(d, tx_id) ==
    LET txq == First(d.transactions, IdColumn(d.transactions), tx_id)
    IN  IF txq = <<>> \/ txq[1].status # "confirmed"
        THEN Response(404, "Transaction not found", <<>>)
        ELSE Response(500, "Receipt data incomplete", <<>>)

\* get_receipt(tx_id) on the database d.
GetReceipt(d, tx_id) ==
    LET txq == First(d.transactions, IdColumn(d.transactions), tx_id)
    IN  IF txq = <<>>
        THEN Response(404, "Transaction not found", <<>>)
        ELSE
        LET tx == txq[1]
        IN  IF tx.status # "confirmed"
            THEN Response(400, "Transaction not yet confirmed", <<>>)
            ELSE
            LET blockq == First(d.blocks, IdColumn(d.blocks), tx.block_id)
                proofq == First(d.merkle_proofs, TxIdColumn(d.merkle_proofs), tx_id)
            IN  IF blockq = <<>> \/ proofq = <<>>
                THEN Response(500, "Receipt data incomplete", <<>>)
                ELSE
                LET walletq == First(d.wallets, IdColumn(d.wallets), tx.wallet_id)
                IN  IF walletq = <<>>
                    \* wallet is None: wallet.pubkey_pqc raises AttributeError
                    THEN Response(500, "Internal Server Error", <<>>)
                    ELSE Response(200, "",
                           <<[tx |-> Payload(tx.wallet_id, tx.to_wallet, tx.amount,
                                             tx.currency, tx.nonce, tx.timestamp),
                              sig_pqc |-> tx.sig_pqc,
                              pubkey_pqc |-> IF walletq[1].pubkey_pqc = NoneStr
                                             THEN ""
                                             ELSE walletq[1].pubkey_pqc,
                              block_header |->
                                  [index |-> blockq[1].index,
                                   sealed_at |-> blockq[1].sealed_at,
                                   merkle_root |-> blockq[1].merkle_root],
                              merkle_proof |-> JsonLoads(proofq[1].proof_json)]>>)

\* VerifyResponse(valid, reason); reason None is <<>>.
Verdict(valid, reason) == [valid |-> valid, reason |-> reason]

\* The outcome of a block of code: whether it raised, and what it returned.
Outcome(raised, verdict) == [raised |-> raised, verdict |-> verdict]

\* A body that does not look at the signature.
VerifyBodySkipsSignature(receipt) ==
    LET payload_hash == Sha256Hex(PayloadBytes(receipt.tx))
    IN  IF \E i \in 1..Len(receipt.merkle_proof) :
                    ~IsHex(receipt.merkle_proof[i].hash)
        THEN Outcome(TRUE, Verdict(FALSE, <<>>))
        ELSE IF Lower(FoldProof(payload_hash, receipt.merkle_proof))
                  # Lower(receipt.block_header.merkle_root)
             THEN Outcome(FALSE, Verdict(FALSE, <<"Merkle proof verification failed">>))
             ELSE Outcome(FALSE, Verdict(TRUE, <<>>))

\* The body of verify_receipt's try block.  bytes.fromhex raises ValueError
\* on the first proof step whose hash is not a hex string; the running
\* digest is one always; any dir other than "L" takes the else branch.
VerifyBody(receipt) ==
    LET payload_hash == Sha256Hex(PayloadBytes(receipt.tx))
    IN  IF receipt.sig_pqc = ""
        THEN Outcome(FALSE, Verdict(FALSE, <<"Missing signature">>))
        ELSE IF \E i \in 1..Len(receipt.merkle_proof) :
                    ~IsHex(receipt.merkle_proof[i].hash)
        THEN Outcome(TRUE, Verdict(FALSE, <<>>))
        ELSE IF Lower(FoldProof(payload_hash, receipt.merkle_proof))
                  # Lower(receipt.block_header.merkle_root)
             THEN Outcome(FALSE, Verdict(FALSE, <<"Merkle proof verification failed">>))
             ELSE Outcome(FALSE, Verdict(TRUE, <<>>))

\* verify_receipt without its except clause: an exception of the body
\* leaves the caller without a verdict.
VerifyReceiptUncaught(receipt) == VerifyBody(receipt).verdict

\* verify_receipt(receipt): the verdict of the body, or, when the body
\* raised, the verdict of the except clause.
VerifyReceipt(receipt) ==
    IF VerifyBody(receipt).raised
    THEN Verdict(FALSE, <<"Verification error">>)
    ELSE VerifyBody(receipt).verdict

\* The nonce prepare_transaction hands out for a wallet: one more than the
\* largest nonce stored for it, 1 when it has no transaction.
PrepareNonce(d, wallet_id) ==
    LET mine == {i \in 1..Len(d.transactions) :
                    d.transactions[i].wallet_id = wallet_id}
    IN  IF mine = {} THEN 1
        ELSE (CHOOSE n \in {d.transactions[i].nonce : i \in mine} :
                 \A i \in mine : d.transactions[i].nonce <= n) + 1

VARIABLES wallets, transactions, blocks, merkle_proofs, now, faults, resp

ledgerVars == <<wallets, transactions, blocks, merkle_proofs>>

VARIABLES leaves, tree, replayed, swapped

treeVars == <<leaves, tree, replayed, swapped>>

VARIABLES posted

VARIABLES calls

VARIABLES other, first, prepared

vars == <<wallets, transactions, blocks, merkle_proofs, now, faults, resp,
          leaves, tree, replayed, swapped, posted, calls,
          other, first, prepared>>

\* ----------------------------------------------------------------- handlers
\* The committed database.
DB == Db(wallets, transactions, blocks, merkle_proofs)

\* The result of the last handler: which one, the transaction it was about,
\* its HTTP response and, for verify_receipt, the verdict.
Resp(op, tx_id, http, verdict) ==
    [op |-> op, tx_id |-> tx_id, http |-> http, verdict |-> verdict]

NoVerdict == Verdict(FALSE, <<>>)
NoResponse == Response(0, "", <<>>)
ServerError == Response(500, "Internal Server Error", <<>>)
Ok == Response(200, "", <<>>)

\* A reading of time.time(): one tick after the reading before, or, when
\* stalled, the same as the reading before.
Read(t0, stalled) == IF stalled THEN t0 ELSE t0 + 1

\* The number of faults among the given flags.
Count(flags) == Cardinality({i \in 1..Len(flags) : flags[i]})

\* The signature blobs clients send.
Sigs == {"", "sig"}
\* A recipient reference.
Recipient == <<"recipient", <<>>>>
\* An id no wallet, transaction or block has.
UnknownId == Prefix16(Sha256Hex(EmptyBytes))

\* The wallet references clients submit with.
WalletRefs == {wallets[i].id : i \in 1..Len(wallets)} \cup {GhostWallet}

\* A submission with an empty signature or for a wallet that does not exist.
IsOdd(tx) == tx.sig_pqc = "" \/ tx.wallet_id = GhostWallet

TreeIdle ==
    /\ leaves = <<>>
    /\ tree = [root |-> Sha256Hex(EmptyBytes), proofs |-> <<>>, built |-> FALSE]
    /\ replayed = [pos |-> 0, digest |-> Sha256Hex(EmptyBytes)]
    /\ swapped = [i |-> 0, j |-> 0, root |-> Sha256Hex(EmptyBytes)]

\* The database of a fresh deployment in which one wallet has been created
\* (POST /wallets at clock reading 0, without a public key); no transaction,
\* block or proof yet.
LedgerEmpty ==
    /\ wallets = <<[id |-> GenerateId(0), user_id |-> "user",
                    pubkey_pqc |-> NoneStr]>>
    /\ transactions = <<>>
    /\ blocks = <<>>
    /\ merkle_proofs = <<>>
    /\ now = 0
    /\ faults = 0
    /\ resp = Resp("none", NoneId, NoResponse, NoVerdict)

\* No receipt has been handed to a client of /verify.
VerifyIdle == posted = [receipt |-> <<>>, change |-> "none", at |-> 0]

\* The clients whose requests may be in flight together.
Clients == {"a", "b"}

\* A client without a request: pc is the position of its submit_transaction
\* call, tx_id the id the call generated, observed the ids of the rows line
\* 254 returned, snapshot the rows (positions) line 333 returned, t the clock
\* reading of seal_block, status the HTTP status of the response (0: none
\* yet), overlapped whether another request was in flight during the call.
IdleCall ==
    [pc |-> "idle", tx_id |-> NoneId, observed |-> <<>>, snapshot |-> <<>>,
     t |-> 0, status |-> 0, overlapped |-> FALSE]

\* No request has arrived.
RaceIdle == calls = [c \in Clients |-> IdleCall]

\* No second batch has been given to the tree builder.
PairIdle == other = [batch |-> <<>>, root |-> Sha256Hex(EmptyBytes), built |-> FALSE]

\* No receipt has been verified a first time.
HeldIdle == first = [seen |-> FALSE, verdict |-> NoVerdict, blocks |-> 0]

\* No client holds a prepared payload (<<>>: none, or <<payload>>).
PrepareIdle == prepared = [c \in Clients |-> <<>>]

Init == LedgerEmpty /\ TreeIdle /\ VerifyIdle /\ RaceIdle
            /\ PairIdle /\ HeldIdle /\ PrepareIdle

SetDb(d) ==
    /\ wallets' = d.wallets
    /\ transactions' = d.transactions
    /\ blocks' = d.blocks
    /\ merkle_proofs' = d.merkle_proofs

\* POST /tx/submit: the insert and its commit, then the seal when at least
\* SealThreshold transactions are pending.
SubmitTransaction ==
    /\ Len(transactions) < MaxTx
    /\ \E from \in WalletRefs, sig \in Sigs, stall1 \in BOOLEAN, fail1 \in BOOLEAN :
          LET t1    == Read(now, stall1)
              p     == Payload(from, Recipient, 100, "MXN",
                               PrepareNonce(DB, from), IntTime(now))
              tx_id == GenerateId(t1)
              row   == NewTransaction(tx_id, p, sig)
              c1    == Commit(DB, [DB EXCEPT !.transactions = Append(@, row)],
                              ~fail1)
          IN  /\ t1 <= MaxClock
              /\ faults + Count(<<stall1, fail1, IsOdd(row)>>) <= MaxFaults
              /\ IF c1.raised
                 THEN /\ SetDb(c1.db)
                      /\ now' = t1
                      /\ faults' = faults + Count(<<stall1, fail1, IsOdd(row)>>)
                      /\ resp' = Resp("submit", tx_id, ServerError, NoVerdict)
                 ELSE IF Len(PendingPositions(c1.db.transactions)) >= SealThreshold
                 THEN \E stall2 \in BOOLEAN, fail2 \in BOOLEAN :
                         LET t2 == Read(t1, stall2)
                             s  == SealBlock(c1.db, t2, t2, ~fail2)
                         IN  /\ t2 <= MaxClock
                             /\ faults + Count(<<stall1, fail1, IsOdd(row),
                                                 stall2, fail2>>) <= MaxFaults
                             /\ SetDb(s.db)
                             /\ now' = t2
                             /\ faults' = faults
                                   + Count(<<stall1, fail1, IsOdd(row),
                                             stall2, fail2>>)
                             /\ resp' = Resp("submit", tx_id,
                                             IF s.raised THEN ServerError ELSE Ok,
                                             NoVerdict)
                 ELSE /\ SetDb(c1.db)
                      /\ now' = t1
                      /\ faults' = faults + Count(<<stall1, fail1, IsOdd(row)>>)
                      /\ resp' = Resp("submit", tx_id, Ok, NoVerdict)
    /\ UNCHANGED <<treeVars, posted, calls, other, first, prepared>>

\* The ids clients ask about: those of the stored transactions and one more.
KnownTxIds == {transactions[i].id : i \in 1..Len(transactions)}

\* GET /tx/{tx_id}/receipt.
GetReceiptCall ==
    /\ \E tx_id \in KnownTxIds \cup {UnknownId} :
          resp' = Resp("get_receipt", tx_id, GetReceipt(DB, tx_id), NoVerdict)
    /\ UNCHANGED <<ledgerVars, now, faults, treeVars, posted, calls, other, first, prepared>>

\* POST /verify with a receipt obtained from get_receipt.
VerifyCall ==
    /\ \E tx_id \in KnownTxIds :
          /\ GetReceipt(DB, tx_id).status = 200
          /\ resp' = Resp("verify", tx_id, Ok,
                          VerifyReceipt(GetReceipt(DB, tx_id).body[1]))
    /\ UNCHANGED <<ledgerVars, now, faults, treeVars, posted, calls, other, first, prepared>>

\* A direct call seal_block(db) with a session of its own.
SealCall ==
    /\ \E stall2 \in BOOLEAN, fail2 \in BOOLEAN :
          LET t2    == Read(now, stall2)
              s     == SealBlock(DB, t2, t2, ~fail2)
              reads == PendingPositions(transactions) # <<>>
          IN  /\ t2 <= MaxClock
              /\ faults + Count(<<stall2, fail2>>) <= MaxFaults
              /\ ~reads => ~stall2 /\ ~fail2
              /\ SetDb(s.db)
              /\ now' = IF reads THEN t2 ELSE now
              /\ faults' = faults + Count(<<stall2, fail2>>)
              /\ resp' = Resp("seal", NoneId,
                              IF s.raised THEN ServerError ELSE Ok, NoVerdict)
    /\ UNCHANGED <<treeVars, posted, calls, other, first, prepared>>

Next == SubmitTransaction \/ GetReceiptCall \/ VerifyCall

\* The HTTP handlers of the application.
Spec == Init /\ [][Next]_vars

NextSeal == SubmitTransaction \/ SealCall

\* The sealer: submissions, and seal_block called on its own besides.
SpecSeal == Init /\ [][NextSeal]_vars

\* -------------------------------------------------- the tree builder alone
\* The leaf byte strings of the stand-alone batches.
LeafValues == {Encode(<<"leaf", <<k>>>>) : k \in 1..NumLeafValues}

RECURSIVE SeqsUpTo(_, _)
\* All sequences over S of length at most n.
SeqsUpTo(S, n) ==
    IF n = 0 THEN {<<>>}
    ELSE LET shorter == SeqsUpTo(S, n - 1)
         IN  shorter \cup {Append(s, x) : s \in {q \in shorter : Len(q) = n - 1}, x \in S}

TreeInit ==
    /\ LedgerEmpty
    /\ leaves \in SeqsUpTo(LeafValues, MaxLeaves)
    /\ tree = [root |-> Sha256Hex(EmptyBytes), proofs |-> <<>>, built |-> FALSE]
    /\ replayed = [pos |-> 0, digest |-> Sha256Hex(EmptyBytes)]
    /\ swapped = [i |-> 0, j |-> 0, root |-> Sha256Hex(EmptyBytes)]
    /\ VerifyIdle
    /\ RaceIdle
    /\ PairIdle /\ HeldIdle /\ PrepareIdle

\* A call merkle_root_and_proofs(leaves).
BuildTree ==
    /\ ~tree.built
    /\ tree' = [root   |-> MerkleRootAndProofs(leaves).root,
                proofs |-> MerkleRootAndProofs(leaves).proofs,
                built  |-> TRUE]
    /\ UNCHANGED <<leaves, replayed, swapped, ledgerVars, now, faults, resp, posted, calls, other, first, prepared>>

\* Replaying proofs[i] with the verifier's fold from the level-0 digest of
\* leaves[i].
ReplayProof ==
    /\ tree.built
    /\ \E i \in 1..Len(leaves) :
          replayed' = [pos    |-> i,
                       digest |-> FoldProof(Sha256Hex(leaves[i]), tree.proofs[i])]
    /\ UNCHANGED <<leaves, tree, swapped, ledgerVars, now, faults, resp, posted, calls, other, first, prepared>>

\* The batch with the leaves at positions i and j exchanged.
SwapLeaves(batch, i, j) ==
    [k \in 1..Len(batch) |->
        IF k = i THEN batch[j] ELSE IF k = j THEN batch[i] ELSE batch[k]]

\* A second call merkle_root_and_proofs, on the batch with two distinct
\* leaves exchanged.
BuildSwapped ==
    /\ tree.built
    /\ \E i, j \in 1..Len(leaves) :
          /\ i < j
          /\ leaves[i] # leaves[j]
          /\ swapped' = [i |-> i, j |-> j,
                         root |-> MerkleRootAndProofs(SwapLeaves(leaves, i, j)).root]
    /\ UNCHANGED <<leaves, tree, replayed, ledgerVars, now, faults, resp, posted, calls, other, first, prepared>>

TreeNext == BuildTree \/ ReplayProof \/ BuildSwapped

\* merkle_root_and_proofs and the verifier's fold on batches of leaves.
SpecTree == TreeInit /\ [][TreeNext]_vars

\* ------------------------------------------- the tree builder on two batches
\* Largest batch of the pairs of batches whose roots are compared.
MaxPairLeaves == 4
\* Number of distinct leaf byte strings those batches are drawn from.
NumPairValues == 2

\* The leaf byte strings of the pairs of batches.
PairValues == {Encode(<<"leaf", <<k>>>>) : k \in 1..NumPairValues}

PairInit ==
    /\ LedgerEmpty
    /\ leaves \in SeqsUpTo(PairValues, MaxPairLeaves)
    /\ tree = [root |-> Sha256Hex(EmptyBytes), proofs |-> <<>>, built |-> FALSE]
    /\ replayed = [pos |-> 0, digest |-> Sha256Hex(EmptyBytes)]
    /\ swapped = [i |-> 0, j |-> 0, root |-> Sha256Hex(EmptyBytes)]
    /\ VerifyIdle
    /\ RaceIdle
    /\ PairIdle /\ HeldIdle /\ PrepareIdle

\* A second call merkle_root_and_proofs, on any other batch.
BuildOther ==
    /\ tree.built
    /\ ~other.built
    /\ \E batch \in SeqsUpTo(PairValues, MaxPairLeaves) \ {leaves} :
          other' = [batch |-> batch,
                    root  |-> MerkleRootAndProofs(batch).root,
                    built |-> TRUE]
    /\ UNCHANGED <<ledgerVars, now, faults, resp, treeVars, posted, calls, first, prepared>>

PairNext == BuildTree \/ BuildOther

\* merkle_root_and_proofs on two different batches.
SpecPair == PairInit /\ [][PairNext]_vars

\* ------------------------------------------------------ the verifier alone
\* Longest proof of the receipts posted to /verify on their own.
MaxProofLen == 2

\* An upper-cased copy of a hex string.
Upper(h) == IF h[1] = "upper" THEN h ELSE <<"upper", <<h>>>>

\* The payloads of the receipts clients post.
PostedPayloads ==
    {Payload(GenerateId(0), Recipient, amount, "MXN", 1, 0) : amount \in {100, 200}}

\* The leaf digest of a payload.
LeafDigest(p) == Sha256Hex(PayloadBytes(p))

\* The strings clients put in the hash of a proof step: the leaf digests
\* (for a receipt's own payload, the sibling of a self-pair), an upper-cased
\* digest and a string that is not hex.
PostedHashes ==
    {LeafDigest(p) : p \in PostedPayloads}
        \cup {Upper(LeafDigest(Payload(GenerateId(0), Recipient, 200, "MXN", 1, 0))),
              NotHex}

\* The proof steps clients post: dir is any string.
PostedItems == {ProofItem(d, h) : d \in {"L", "R", "X"}, h \in PostedHashes}

\* Whether every step of a proof carries a hex string.
AllHex(proof) == \A i \in 1..Len(proof) : IsHex(proof[i].hash)

\* The roots clients claim for a payload and a proof: the digest the proof
\* leads to, its upper-cased copy, and a digest it does not lead to.
PostedRoots(p, proof) ==
    {Sha256Hex(EmptyBytes)}
        \cup (IF AllHex(proof)
              THEN {FoldProof(LeafDigest(p), proof),
                    Upper(FoldProof(LeafDigest(p), proof))}
              ELSE {})

\* QuantumReceipt.
Receipt(p, sig, proof, root) ==
    [tx |-> p, sig_pqc |-> sig, pubkey_pqc |-> "",
     block_header |-> [index |-> 1, sealed_at |-> 0, merkle_root |-> root],
     merkle_proof |-> proof]

\* The receipts clients post for the given payloads.
PostedReceipts(payloads) ==
    UNION {{Receipt(p, sig, proof, root) : root \in PostedRoots(p, proof), sig \in Sigs} :
              p \in payloads, proof \in SeqsUpTo(PostedItems, MaxProofLen)}

\* The other side tag.
Swap(d) == IF d = "L" THEN "R" ELSE "L"

\* The receipts that differ from r in one place: the hash of one proof
\* step replaced by a string that denotes other bytes (or none), the side
\* tag of one L or R step swapped, or the payload replaced by another.
Tampered(r) ==
    UNION {{[receipt |-> <<[r EXCEPT !.merkle_proof[k].hash = h]>>,
             change |-> "hash", at |-> k] :
               h \in {g \in PostedHashes : Lower(g) # Lower(r.merkle_proof[k].hash)}} :
              k \in 1..Len(r.merkle_proof)}
    \cup
    {[receipt |-> <<[r EXCEPT !.merkle_proof[k].dir = Swap(@)]>>,
      change |-> "dir", at |-> k] :
        k \in {j \in 1..Len(r.merkle_proof) : r.merkle_proof[j].dir \in {"L", "R"}}}
    \cup
    {[receipt |-> <<[r EXCEPT !.tx = p]>>, change |-> "leaf", at |-> 0] :
        p \in PostedPayloads \ {r.tx}}

VerifyInit ==
    /\ LedgerEmpty
    /\ TreeIdle
    /\ posted \in {[receipt |-> <<r>>, change |-> "none", at |-> 0] :
                      r \in PostedReceipts(PostedPayloads)}
    /\ RaceIdle
    /\ PairIdle /\ HeldIdle /\ PrepareIdle

\* POST /verify with the receipt the client holds.
PostReceipt ==
    /\ resp.op # "verify"
    /\ resp' = Resp("verify", NoneId, Ok, VerifyReceipt(posted.receipt[1]))
    /\ UNCHANGED <<ledgerVars, now, faults, treeVars, posted, calls, other, first, prepared>>

\* POST /verify with a receipt that differs in one place from the one the
\* verifier has just judged.
PostTampered ==
    /\ resp.op = "verify"
    /\ posted.change = "none"
    /\ \E t \in Tampered(posted.receipt[1]) :
          /\ posted' = t
          /\ resp' = Resp("verify", NoneId, Ok, VerifyReceipt(t.receipt[1]))
    /\ UNCHANGED <<ledgerVars, now, faults, treeVars, calls, other, first, prepared>>

VerifyNext == PostReceipt \/ PostTampered

\* verify_receipt on receipts of the clients' making.
SpecVerify == VerifyInit /\ [][VerifyNext]_vars

\* ------------------------------------- the verifier beside a live ledger
\* A verifier that consults the stored blocks and knows no receipt before
\* the first block is sealed.
VerifyHandlerNeedsBlock(d, receipt) ==
    IF d.blocks = <<>>
    THEN Verdict(FALSE, <<"Unknown block">>)
    ELSE VerifyReceipt(receipt)

\* verify_receipt as the handler of POST /verify of the application whose
\* database is d: unlike the other handlers it takes no db session
\* (no Depends(get_db)) and reads nothing but its request.
VerifyHandler(d, receipt) == VerifyReceipt(receipt)

\* The payload of the receipt a client holds while the ledger goes on.
HeldPayload == Payload(GenerateId(0), Recipient, 100, "MXN", 1, 0)

\* The proofs of that receipt with the roots it claims: no step and the
\* payload digest, a self-pair step and what it leads to, and a step whose
\* hash is not hex.
HeldProofs ==
    {[proof |-> <<>>, root |-> LeafDigest(HeldPayload)],
     [proof |-> <<ProofItem("L", LeafDigest(HeldPayload))>>,
      root  |-> FoldProof(LeafDigest(HeldPayload),
                          <<ProofItem("L", LeafDigest(HeldPayload))>>)],
     [proof |-> <<ProofItem("X", NotHex)>>, root |-> LeafDigest(HeldPayload)]}

StatelessInit ==
    /\ LedgerEmpty
    /\ TreeIdle
    /\ posted \in {[receipt |-> <<Receipt(HeldPayload, sig, h.proof, h.root)>>,
                     change |-> "none", at |-> 0] :
                       sig \in Sigs, h \in HeldProofs}
    /\ RaceIdle
    /\ PairIdle /\ HeldIdle /\ PrepareIdle

\* POST /verify with the receipt the client holds, whatever the ledger has
\* become; the verdict of the first time is kept for comparison.
PostHeld ==
    /\ resp' = Resp("verify", NoneId, Ok, VerifyHandler(DB, posted.receipt[1]))
    /\ first' = IF first.seen
                THEN first
                ELSE [seen |-> TRUE,
                      verdict |-> VerifyHandler(DB, posted.receipt[1]),
                      blocks |-> Len(blocks)]
    /\ UNCHANGED <<ledgerVars, now, faults, treeVars, posted, calls, other, prepared>>

StatelessNext == SubmitTransaction \/ PostHeld

\* Submissions, and one receipt verified again and again meanwhile.
SpecStateless == StatelessInit /\ [][StatelessNext]_vars

\* ------------------------------------------------- prepare, then submit
\* POST /tx/prepare of client c: 404 for an unknown wallet; otherwise the
\* payload with the next nonce of the wallet, which the client keeps.
\* Nothing is written.
PrepareCall(c) ==
    /\ prepared[c] = <<>>
    /\ \E from \in WalletRefs :
          IF First(wallets, IdColumn(wallets), from) = <<>>
          THEN /\ resp' = Resp("prepare", NoneId,
                                Response(404, "Wallet not found", <<>>), NoVerdict)
               /\ UNCHANGED prepared
          ELSE LET p == Payload(from, Recipient, 100, "MXN",
                                PrepareNonce(DB, from), IntTime(now))
               IN  /\ resp' = Resp("prepare", NoneId, Response(200, "", <<p>>),
                                   NoVerdict)
                   /\ prepared' = [prepared EXCEPT ![c] = <<p>>]
    /\ UNCHANGED <<ledgerVars, now, faults, treeVars, posted, calls, other, first>>

\* submit_transaction for the payload p and the signature sig: the insert
\* and its commit, then the seal when at least SealThreshold transactions
\* are pending.  The nonce of p is stored as it comes.
SubmitOf(p, sig) ==
    \E stall1 \in BOOLEAN, fail1 \in BOOLEAN :
        \E row \in {NewTransaction(GenerateId(Read(now, stall1)), p, sig)} :
        \E c1 \in {Commit(DB, [DB EXCEPT !.transactions = Append(@, row)], ~fail1)} :
            /\ Read(now, stall1) <= MaxClock
            /\ faults + Count(<<stall1, fail1, IsOdd(row)>>) <= MaxFaults
            /\ IF c1.raised
               THEN /\ SetDb(c1.db)
                    /\ now' = Read(now, stall1)
                    /\ faults' = faults + Count(<<stall1, fail1, IsOdd(row)>>)
                    /\ resp' = Resp("submit", row.id, ServerError, NoVerdict)
               ELSE IF Len(PendingPositions(c1.db.transactions)) >= SealThreshold
               THEN \E stall2 \in BOOLEAN, fail2 \in BOOLEAN :
                       /\ Read(Read(now, stall1), stall2) <= MaxClock
                       /\ faults + Count(<<stall1, fail1, IsOdd(row), stall2, fail2>>)
                             <= MaxFaults
                       /\ \E s \in {SealBlock(c1.db, Read(Read(now, stall1), stall2),
                                               Read(Read(now, stall1), stall2), ~fail2)} :
                             /\ SetDb(s.db)
                             /\ now' = Read(Read(now, stall1), stall2)
                             /\ faults' = faults
                                   + Count(<<stall1, fail1, IsOdd(row), stall2, fail2>>)
                             /\ resp' = Resp("submit", row.id,
                                             IF s.raised THEN ServerError ELSE Ok,
                                             NoVerdict)
               ELSE /\ SetDb(c1.db)
                    /\ now' = Read(now, stall1)
                    /\ faults' = faults + Count(<<stall1, fail1, IsOdd(row)>>)
                    /\ resp' = Resp("submit", row.id, Ok, NoVerdict)

\* POST /tx/submit of client c with the payload it got from /tx/prepare.
SubmitPrepared(c) ==
    /\ prepared[c] # <<>>
    /\ Len(transactions) < MaxTx
    /\ SubmitOf(prepared[c][1], "sig")
    /\ prepared' = [prepared EXCEPT ![c] = <<>>]
    /\ UNCHANGED <<treeVars, posted, calls, other, first>>

NonceNext == \E c \in Clients : PrepareCall(c) \/ SubmitPrepared(c)

\* Clients that prepare a transaction and submit it later.
SpecNonce == Init /\ [][NonceNext]_vars

\* ------------------------------------------ submissions that keep arriving
\* POST /tx/submit with a payload prepared just before, when the seal, if the
\* submission triggers one, succeeds: the transaction is not left stored
\* behind an error response.
SubmitSealed ==
    /\ Len(transactions) < MaxTx
    /\ \E from \in WalletRefs, sig \in Sigs :
          SubmitOf(Payload(from, Recipient, 100, "MXN",
                           PrepareNonce(DB, from), IntTime(now)), sig)
    /\ ~(resp'.http.status = 500 /\ Len(transactions') = Len(transactions) + 1)
    /\ UNCHANGED <<treeVars, posted, calls, other, first, prepared>>

\* Submissions keep arriving and seals succeed: a submission that can be
\* handled is handled in the end.
SpecLive == Init /\ [][SubmitSealed]_vars /\ WF_vars(SubmitSealed)

\* --------------------------------------------------- requests in flight
\* Whether a request of client c has been received and not yet answered.
InFlight(c) == calls[c].pc # "idle"

\* Whether the body of c's handler has started and not yet returned.
OnLoop(c) == calls[c].pc \in {"stored", "triggered", "sealing"}

\* An event loop that switches between handlers at every statement.
LoopFreeAlways(c) == TRUE

\* Whether the event loop can run c's handler: uvicorn.run serves the app
\* in one process on one event loop, and the handlers are coroutines whose
\* bodies block in SQLAlchemy calls and await only seal_block, which never
\* suspends, so a handler body that has started runs to its return before
\* another one starts.
LoopFree(c) == \A o \in Clients \ {c} : ~OnLoop(o)

\* The ids of the rows at the given positions.
IdsAt(txs, ps) == [i \in 1..Len(ps) |-> txs[ps[i]].id]

\* c's handler returns (or an exception leaves it) with an HTTP status.
Returned(c, status) ==
    /\ calls' = [calls EXCEPT ![c].pc = "idle", ![c].status = status]
    /\ resp' = Resp("submit", calls[c].tx_id,
                    IF status = 200 THEN Ok ELSE ServerError, NoVerdict)

\* A POST /tx/submit of client c reaches the server.
Arrive(c) ==
    /\ calls[c].pc = "idle"
    /\ Len(transactions) + Cardinality({o \in Clients : InFlight(o)}) < MaxTx
    /\ calls' = [o \in Clients |->
                    IF o = c
                    THEN [IdleCall EXCEPT !.pc = "arrived",
                                          !.overlapped = \E q \in Clients : InFlight(q)]
                    ELSE IF InFlight(o)
                         THEN [calls[o] EXCEPT !.overlapped = TRUE]
                         ELSE calls[o]]
    /\ UNCHANGED <<ledgerVars, now, faults, resp, treeVars, posted, other, first, prepared>>

\* submit_transaction, lines 234-251: the row and its commit.
Store(c) ==
    /\ calls[c].pc = "arrived"
    /\ LoopFree(c)
    /\ \E stall1 \in BOOLEAN, fail1 \in BOOLEAN :
          LET t1    == Read(now, stall1)
              from  == wallets[1].id
              p     == Payload(from, Recipient, 100, "MXN",
                               PrepareNonce(DB, from), IntTime(now))
              tx_id == GenerateId(t1)
              c1    == Commit(DB, [DB EXCEPT !.transactions =
                                      Append(@, NewTransaction(tx_id, p, "sig"))],
                              ~fail1)
          IN  /\ t1 <= MaxClock
              /\ faults + Count(<<stall1, fail1>>) <= MaxFaults
              /\ SetDb(c1.db)
              /\ now' = t1
              /\ faults' = faults + Count(<<stall1, fail1>>)
              /\ IF c1.raised
                 THEN /\ calls' = [calls EXCEPT ![c].pc = "idle",
                                                ![c].tx_id = tx_id,
                                                ![c].status = 500]
                      /\ resp' = Resp("submit", tx_id, ServerError, NoVerdict)
                 ELSE /\ calls' = [calls EXCEPT ![c].pc = "stored",
                                                ![c].tx_id = tx_id]
                      /\ UNCHANGED resp
    /\ UNCHANGED <<treeVars, posted, other, first, prepared>>

\* submit_transaction, lines 254-258: the pending query and the threshold.
Observe(c) ==
    /\ calls[c].pc = "stored"
    /\ LET seen == IdsAt(transactions, PendingPositions(transactions))
       IN  IF Len(seen) >= SealThreshold
           THEN /\ calls' = [calls EXCEPT ![c].pc = "triggered",
                                          ![c].observed = seen]
                /\ UNCHANGED resp
           ELSE /\ calls' = [calls EXCEPT ![c].pc = "idle",
                                          ![c].observed = seen,
                                          ![c].status = 200]
                /\ resp' = Resp("submit", calls[c].tx_id, Ok, NoVerdict)
    /\ UNCHANGED <<ledgerVars, now, faults, treeVars, posted, other, first, prepared>>

\* seal_block, lines 333-369: the snapshot, the block id, index and time
\* and the unit of work, up to the commit.
Snapshot(c) ==
    /\ calls[c].pc = "triggered"
    /\ LET pending == PendingPositions(transactions)
       IN  IF pending = <<>>
           THEN /\ Returned(c, 200)
                /\ UNCHANGED <<now, faults>>
           ELSE \E stall2 \in BOOLEAN :
                   /\ Read(now, stall2) <= MaxClock
                   /\ faults + Count(<<stall2>>) <= MaxFaults
                   /\ now' = Read(now, stall2)
                   /\ faults' = faults + Count(<<stall2>>)
                   /\ calls' = [calls EXCEPT ![c].pc = "sealing",
                                             ![c].snapshot = pending,
                                             ![c].t = Read(now, stall2)]
                   /\ UNCHANGED resp
    /\ UNCHANGED <<ledgerVars, treeVars, posted, other, first, prepared>>

\* seal_block, line 371: the commit of the unit of work, and the return of
\* submit_transaction (or the exception that leaves it).
CommitSeal(c) ==
    /\ calls[c].pc = "sealing"
    /\ \E fail2 \in BOOLEAN :
          LET c2 == Commit(DB, SealImage(DB, calls[c].snapshot,
                                         GenerateId(calls[c].t),
                                         IntTime(calls[c].t)), ~fail2)
          IN  /\ faults + Count(<<fail2>>) <= MaxFaults
              /\ SetDb(c2.db)
              /\ faults' = faults + Count(<<fail2>>)
              /\ Returned(c, IF c2.raised THEN 500 ELSE 200)
    /\ UNCHANGED <<now, treeVars, posted, other, first, prepared>>

RaceNext ==
    \E c \in Clients :
        Arrive(c) \/ Store(c) \/ Observe(c) \/ Snapshot(c) \/ CommitSeal(c)

\* Submissions of several clients in flight together.
SpecRace == Init /\ [][RaceNext]_vars

\* ------------------------------------------------------------------ claims
\* The rows of a table as a set.
Rows(table) == {table[i] : i \in 1..Len(table)}

\* C1: in every reachable ledger state, for every confirmed transaction with
\* a non-empty signature, verify_receipt applied to the receipt get_receipt
\* returns for it answers valid = true.
C1_ReceiptRoundTrip ==
    \A tx \in Rows(transactions) :
        (/\ tx.status = "confirmed"
         /\ tx.sig_pqc # ""
         /\ GetReceipt(DB, tx.id).status = 200)
        => VerifyReceipt(GetReceipt(DB, tx.id).body[1]).valid

\* C2: for every non-empty batch and every position i, replaying proofs[i]
\* with the verifier's fold from the level-0 digest hash(leaves[i]) yields
\* the root merkle_root_and_proofs returned.
C2_BuilderRoundTrip ==
    replayed.pos # 0 => replayed.digest = tree.root

\* The proof records of the transactions block b sealed.
SealedBy(b) == {p \in Rows(merkle_proofs) : p.block_id = b.id}

\* C3: the blocks' index values are exactly 1..N in the order of creation
\* (first 1, each one greater than the one before, no gaps, no duplicates),
\* and every transaction a block sealed is confirmed with that block's id.
C3_MonotonicSealing ==
    /\ \A k \in 1..Len(blocks) : blocks[k].index = k
    /\ \A b \in Rows(blocks) : \A p \in SealedBy(b) :
          \E tx \in Rows(transactions) :
              /\ tx.id = p.tx_id
              /\ tx.status = "confirmed"
              /\ tx.block_id = b.id

C3_Witness ==
    /\ Len(blocks) >= 2
    /\ \A b \in Rows(blocks) : SealedBy(b) # {}

\* C4: for every transaction, status = confirmed iff its block_id is set and
\* names an existing block iff a proof record keyed by its id exists; that
\* record carries the same block_id.
C4_ConfirmedIffBlockIffProof ==
    \A tx \in Rows(transactions) :
        LET hasBlock == /\ tx.block_id # NoneId
                        /\ \E b \in Rows(blocks) : b.id = tx.block_id
            proofsOf == {p \in Rows(merkle_proofs) : p.tx_id = tx.id}
        IN  /\ tx.status = "confirmed" <=> hasBlock
            /\ hasBlock <=> proofsOf # {}
            /\ \A p \in proofsOf : p.block_id = tx.block_id

C4_Witness ==
    /\ \E tx \in Rows(transactions) : tx.status = "confirmed"
    /\ \E tx \in Rows(transactions) : tx.status = "pending"

\* The first n rows of a table.
FirstRows(table, n) == SubSeq(table, 1, n)

\* C5: with threshold 3 and an empty ledger at the start, fewer than three
\* stored transactions are all pending and no block exists; the successful
\* submission of the third creates exactly one block, of index 1, which
\* confirms exactly T1, T2, T3, with the tree leaves in submission order.
C5_FewerThanThreshold ==
    Len(transactions) < SealThreshold =>
        /\ blocks = <<>>
        /\ merkle_proofs = <<>>
        /\ \A tx \in Rows(transactions) :
              tx.status = "pending" /\ tx.block_id = NoneId

C5_ThirdSubmission ==
    (/\ Len(transactions) = SealThreshold - 1
     /\ Len(transactions') = SealThreshold
     /\ resp'.op = "submit"
     /\ resp'.http.status = 200)
    => /\ Len(blocks') = 1
       /\ blocks'[1].index = 1
       /\ \A i \in 1..SealThreshold :
             /\ transactions'[i].status = "confirmed"
             /\ transactions'[i].block_id = blocks'[1].id
       /\ FirstRows(transactions', SealThreshold - 1) =
             [i \in 1..(SealThreshold - 1) |->
                 ConfirmRow(transactions[i], blocks'[1].id)]
       /\ [i \in 1..Len(merkle_proofs') |-> merkle_proofs'[i].tx_id] =
             [i \in 1..SealThreshold |-> transactions'[i].id]
       /\ blocks'[1].merkle_root =
             MerkleRootAndProofs(
                 [i \in 1..SealThreshold |->
                     Encode(transactions'[i].payload_hash)]).root

C5_BoundaryScenario == [](C5_FewerThanThreshold) /\ [][C5_ThirdSubmission]_vars

C5_Witness ==
    /\ Len(transactions) = SealThreshold
    /\ Len(blocks) = 1
    /\ resp.op = "submit"
    /\ resp.http.status = 200
    /\ transactions[1].payload_hash # transactions[SealThreshold].payload_hash

\* C6: for every confirmed transaction, whatever wallet reference it was
\* submitted with, get_receipt returns a receipt and no error; the receipt's
\* payload and signature are the stored transaction's, its proof steps the
\* stored proof's in order, its block header the owning block's.
C6_ReceiptForEveryConfirmed ==
    \A tx \in Rows(transactions) :
        (/\ resp.op = "get_receipt"
         /\ resp.tx_id = tx.id
         /\ tx.status = "confirmed")
        => /\ resp.http.status = 200
           /\ Len(resp.http.body) = 1
           /\ LET r == resp.http.body[1]
              IN  /\ r.tx = Payload(tx.wallet_id, tx.to_wallet, tx.amount,
                                    tx.currency, tx.nonce, tx.timestamp)
                  /\ r.sig_pqc = tx.sig_pqc
                  /\ \E p \in Rows(merkle_proofs) :
                        /\ p.tx_id = tx.id
                        /\ r.merkle_proof = JsonLoads(p.proof_json)
                  /\ \E b \in Rows(blocks) :
                        /\ b.id = tx.block_id
                        /\ r.block_header =
                              [index |-> b.index, sealed_at |-> b.sealed_at,
                               merkle_root |-> b.merkle_root]

\* C7: get_receipt fails with NotFound (404) when no transaction has the id
\* and with NotYetConfirmed (400) when the transaction is pending; in both
\* cases it returns no receipt and leaves the ledger as it was.
C7_Step ==
    resp'.op = "get_receipt" =>
        LET txq == First(transactions, IdColumn(transactions), resp'.tx_id)
        IN  /\ txq = <<>> =>
                  /\ resp'.http.status = 404
                  /\ resp'.http.detail = "Transaction not found"
                  /\ resp'.http.body = <<>>
                  /\ UNCHANGED ledgerVars
            /\ (txq # <<>> /\ txq[1].status = "pending") =>
                  /\ resp'.http.status = 400
                  /\ resp'.http.detail = "Transaction not yet confirmed"
                  /\ resp'.http.body = <<>>
                  /\ UNCHANGED ledgerVars

C7_ReceiptErrors == [][C7_Step]_vars

C7_Witness ==
    /\ resp.op = "get_receipt"
    /\ resp.http.status = 400
    /\ \E tx \in Rows(transactions) : tx.id = resp.tx_id /\ tx.status = "pending"

\* C8: a seal attempt made while no transaction is pending creates no block
\* and no proof, allocates no block index and leaves every transaction,
\* block and proof as it was.
C8_Step ==
    (resp'.op = "seal" /\ PendingPositions(transactions) = <<>>)
    => /\ Len(blocks') = Len(blocks)
       /\ UNCHANGED <<wallets, transactions, blocks, merkle_proofs, now>>
       /\ resp'.http.status = 200

C8_EmptySealIsNoOp == [][C8_Step]_vars

C8_Witness ==
    /\ resp.op = "seal"
    /\ resp.http.status = 200
    /\ transactions = <<>>
    /\ blocks = <<>>
    /\ merkle_proofs = <<>>

\* C9: no observable state is partially sealed: every block that exists
\* confirms at least one transaction, every confirmed transaction and every
\* proof has its block, a step that adds a block leaves no transaction of
\* its snapshot pending or without proof, and a step that adds none neither
\* confirms a transaction nor adds a proof.
C9_State ==
    /\ \A b \in Rows(blocks) :
          \E tx \in Rows(transactions) :
              tx.block_id = b.id /\ tx.status = "confirmed"
    /\ \A tx \in Rows(transactions) :
          (tx.status = "confirmed" \/ \E p \in Rows(merkle_proofs) : p.tx_id = tx.id)
          => \E b \in Rows(blocks) : b.id = tx.block_id
    /\ \A p \in Rows(merkle_proofs) : \E b \in Rows(blocks) : b.id = p.block_id

C9_Step ==
    /\ blocks' # blocks =>
          /\ Len(blocks') = Len(blocks) + 1
          /\ \A tx \in Rows(transactions') :
                /\ tx.status = "confirmed"
                /\ \E p \in Rows(merkle_proofs') :
                      p.tx_id = tx.id /\ p.block_id = tx.block_id
    /\ blocks' = blocks =>
          /\ merkle_proofs' = merkle_proofs
          /\ FirstRows(transactions', Len(transactions)) = transactions
          /\ \A tx \in Rows(transactions') \ Rows(transactions) :
                tx.status = "pending"

C9_SealAtomicity == [](C9_State) /\ [][C9_Step]_vars

C9_Witness ==
    /\ resp.http.status = 500
    /\ Len(PendingPositions(transactions)) >= SealThreshold
    /\ blocks = <<>>

\* A step in which a seal attempt raised: seal_block called on its own, or a
\* submission that stored its transaction and then failed.
SealFailedStep ==
    /\ resp'.http.status = 500
    /\ \/ resp'.op = "seal"
       \/ resp'.op = "submit" /\ Len(transactions') = Len(transactions) + 1

\* C10: when a seal attempt fails after its snapshot, the ledger is as it
\* was before the attempt: no block added, every snapshotted transaction
\* still pending without block_id and proof; and the next successful seal
\* includes all of those transactions.
C10_Step ==
    /\ SealFailedStep =>
          /\ blocks' = blocks
          /\ merkle_proofs' = merkle_proofs
          /\ FirstRows(transactions', Len(transactions)) = transactions
          /\ resp'.op = "submit" =>
                transactions'[Len(transactions')].status = "pending"
          /\ \A tx \in Rows(transactions') :
                tx.status = "pending" =>
                    /\ tx.block_id = NoneId
                    /\ \A p \in Rows(merkle_proofs') : p.tx_id # tx.id
    /\ Len(blocks') > Len(blocks) =>
          \A i \in 1..Len(transactions) :
              transactions[i].status = "pending" =>
                  /\ transactions'[i].status = "confirmed"
                  /\ transactions'[i].block_id = blocks'[Len(blocks')].id
                  /\ \E p \in Rows(merkle_proofs') :
                        /\ p.tx_id = transactions'[i].id
                        /\ p.block_id = blocks'[Len(blocks')].id

C10_FailedSealRollsBack == [][C10_Step]_vars

C10_Witness ==
    /\ blocks # <<>>
    /\ Cardinality(SealedBy(blocks[1])) > SealThreshold
\* C11: verify_receipt never raises: for every receipt, also one with an
\* empty signature, an empty proof, a proof step whose hash is not hex or a
\* dir other than L and R, the handler answers 200 with a verdict; a verdict
\* with valid = false carries a reason, one with valid = true carries none.
C11_AlwaysAVerdict ==
    resp.op = "verify" =>
        /\ resp.http.status = 200
        /\ resp.verdict.valid => resp.verdict.reason = <<>>
        /\ ~resp.verdict.valid => resp.verdict.reason # <<>>

C11_Witness ==
    /\ resp.op = "verify"
    /\ posted.receipt # <<>>
    /\ posted.receipt[1].sig_pqc # ""
    /\ \E i \in 1..Len(posted.receipt[1].merkle_proof) :
          /\ ~IsHex(posted.receipt[1].merkle_proof[i].hash)
          /\ posted.receipt[1].merkle_proof[i].dir = "X"
    /\ resp.verdict = Verdict(FALSE, <<"Verification error">>)
\* The verifier's running digest of receipt r before its k-th proof step.
Running(r, k) == FoldProof(LeafDigest(r.tx), SubSeq(r.merkle_proof, 1, k - 1))

\* A step in which a client alters, in one place, a receipt verify_receipt
\* has just found valid, and posts it.
TamperValidStep ==
    /\ posted.change = "none"
    /\ posted'.change # "none"
    /\ resp.op = "verify"
    /\ resp.verdict.valid

C13_OrderSensitivity ==
    swapped.i # 0 => swapped.root # tree.root

C13_Witness ==
    /\ Len(leaves) = 3
    /\ swapped.i = 1
    /\ swapped.j = 3
    /\ leaves[1] = leaves[2]
    /\ swapped.root # tree.root
\* The elements of a sequence as a set.
Range(seq) == {seq[i] : i \in 1..Len(seq)}

\* The blocks that confirm a transaction with one of the given ids.
BlocksOver(ids) ==
    {b \in Rows(blocks) :
        \E tx \in Rows(transactions) : tx.id \in ids /\ tx.block_id = b.id}

\* Two submissions that were in flight together, have both been answered
\* and have both seen the pending count at the threshold or above.
BothObserved(c1, c2) ==
    /\ c1 # c2
    /\ calls[c1].overlapped /\ calls[c2].overlapped
    /\ calls[c1].pc = "idle" /\ calls[c2].pc = "idle"
    /\ calls[c1].status # 0 /\ calls[c2].status # 0
    /\ Len(calls[c1].observed) >= SealThreshold
    /\ Len(calls[c2].observed) >= SealThreshold

\* C14: no two callers are inside seal_block, between its snapshot and its
\* commit, at the same time; and when two submissions in flight together
\* have each seen the pending count reach the threshold, the transactions
\* both saw pending are sealed by one block, not two (by exactly one when a
\* caller's seal succeeded, by none when every seal failed).
C14_State ==
    /\ \A c1, c2 \in Clients :
          (calls[c1].pc = "sealing" /\ calls[c2].pc = "sealing") => c1 = c2
    /\ \A c1, c2 \in Clients :
          BothObserved(c1, c2) =>
              LET batch == Range(calls[c1].observed) \cap Range(calls[c2].observed)
                  n     == Cardinality(BlocksOver(batch))
              IN  /\ batch # {}
                  /\ n <= 1
                  /\ (calls[c1].status = 200 \/ calls[c2].status = 200) => n = 1
                  /\ n = 1 => \A tx \in Rows(transactions) :
                                 tx.id \in batch => tx.status = "confirmed"

\* A step adds at most one block, and only the commit of a seal adds one.
C14_Step ==
    /\ Len(blocks') <= Len(blocks) + 1
    /\ Len(blocks') = Len(blocks) + 1 =>
          \E c \in Clients : calls[c].pc = "sealing" /\ calls'[c].pc = "idle"

C14_OneSealPerBatch == [](C14_State) /\ [][C14_Step]_vars

C14_Witness ==
    /\ \E c1, c2 \in Clients :
          /\ BothObserved(c1, c2)
          /\ calls[c1].status = 500
          /\ calls[c2].status = 200
          /\ calls[c1].tx_id \in Range(calls[c2].observed)
    /\ Len(blocks) = 1
\* The positions of the proof records of a transaction id, and of the blocks
\* with a given id.
ProofsAt(tx_id) == {i \in 1..Len(merkle_proofs) : merkle_proofs[i].tx_id = tx_id}
BlocksAt(block_id) == {k \in 1..Len(blocks) : blocks[k].id = block_id}

\* C15: with submissions (and the seals they trigger) of several clients in
\* flight together, every stored transaction is either pending, in no block
\* and without proof, or confirmed in exactly one existing block with exactly
\* one proof, of that block; the transaction of every call that got past its
\* insert is stored; and no stored transaction ever disappears or leaves its
\* block.
C15_State ==
    /\ \A tx \in Rows(transactions) :
          \/ /\ tx.status = "pending"
             /\ tx.block_id = NoneId
             /\ ProofsAt(tx.id) = {}
          \/ /\ tx.status = "confirmed"
             /\ Cardinality(BlocksAt(tx.block_id)) = 1
             /\ Cardinality(ProofsAt(tx.id)) = 1
             /\ \A i \in ProofsAt(tx.id) : merkle_proofs[i].block_id = tx.block_id
    /\ \A c \in Clients :
          (OnLoop(c) \/ calls[c].status = 200 \/ calls[c].observed # <<>>)
          => \E tx \in Rows(transactions) : tx.id = calls[c].tx_id

C15_Step ==
    /\ Len(transactions') >= Len(transactions)
    /\ \A i \in 1..Len(transactions) :
          /\ transactions'[i].id = transactions[i].id
          /\ transactions[i].status = "confirmed" =>
                transactions'[i] = transactions[i]

C15_NoDoubleInclusionNoDrop == [](C15_State) /\ [][C15_Step]_vars

C15_Witness ==
    \E c1, c2 \in Clients :
        /\ calls[c1].overlapped /\ calls[c2].overlapped
        /\ calls[c1].status = 200 /\ calls[c2].status = 200
        /\ calls[c1].pc = "idle" /\ calls[c2].pc = "idle"
        /\ \E t1, t2 \in Rows(transactions) :
              /\ t1.id = calls[c1].tx_id /\ t1.status = "confirmed"
              /\ t2.id = calls[c2].tx_id /\ t2.status = "pending"
\* Whether a table only grew in a step: its old rows are where they were.
OnlyGrew(old, new) ==
    /\ Len(new) >= Len(old)
    /\ FirstRows(new, Len(old)) = old

\* C16: a transaction enters the ledger pending and without block (the seal
\* its own submission triggers may confirm it at once); an existing one
\* changes only from pending to confirmed, in a step that adds the block it
\* is confirmed in, and only in status and block_id; a confirmed one never
\* changes again; blocks and proofs, once written, stay as they are; no
\* transaction, block or proof is deleted; get_receipt and verify_receipt
\* change nothing.
C16_Step ==
    /\ OnlyGrew(blocks, blocks')
    /\ OnlyGrew(merkle_proofs, merkle_proofs')
    /\ Len(transactions') >= Len(transactions)
    /\ \A i \in 1..Len(transactions') :
          LET new == transactions'[i]
              sealedNow == /\ Len(blocks') = Len(blocks) + 1
                           /\ new = [new EXCEPT !.status = "confirmed",
                                                 !.block_id = blocks'[Len(blocks')].id]
                           /\ ProofsAt(new.id) = {}
          IN  IF i > Len(transactions)
              THEN \/ new.status = "pending" /\ new.block_id = NoneId
                   \/ sealedNow
              ELSE \/ new = transactions[i]
                   \/ /\ transactions[i].status = "pending"
                      /\ transactions[i].block_id = NoneId
                      /\ new = [transactions[i] EXCEPT
                                   !.status = "confirmed",
                                   !.block_id = blocks'[Len(blocks')].id]
                      /\ sealedNow
    /\ resp'.op \in {"get_receipt", "verify"} => UNCHANGED ledgerVars

C16_AppendOnly == [][C16_Step]_vars

C16_Witness ==
    /\ Len(blocks) >= 2
    /\ resp.op = "verify"
    /\ \E tx \in Rows(transactions) :
          tx.id = resp.tx_id /\ tx.block_id = blocks[1].id
\* The reference construction: the level above a level of digests, adjacent
\* nodes paired left to right, the last node of an odd level with itself.
RefLevelUp(level) ==
    [k \in 1..((Len(level) + 1) \div 2) |->
        Sha256Hex(Concat(FromHex(level[2 * k - 1]),
                         FromHex(IF 2 * k <= Len(level)
                                 THEN level[2 * k]
                                 ELSE level[2 * k - 1])))]

RECURSIVE RefTop(_)
\* The single node the levels above a non-empty level end in.
RefTop(level) == IF Len(level) = 1 THEN level[1] ELSE RefTop(RefLevelUp(level))

\* The root of the reference construction for a batch.
RefRoot(batch) ==
    IF batch = <<>>
    THEN Sha256Hex(EmptyBytes)
    ELSE RefTop([k \in 1..Len(batch) |-> Sha256Hex(batch[k])])

\* C17: for every batch of 0..MaxLeaves leaves the root merkle_root_and_proofs
\* returns is the root of the reference construction (hash of the empty
\* string for the empty batch; otherwise level 0 the hashes of the leaves in
\* input order, parents hash(left || right) of adjacent nodes, the last node
\* of an odd level paired with itself), and the proof list has one entry per
\* leaf (none for the empty batch).
C17_RootIsReference ==
    tree.built =>
        /\ tree.root = RefRoot(leaves)
        /\ Len(tree.proofs) = Len(leaves)

C17_Witness ==
    /\ tree.built
    /\ Len(leaves) = 3
    /\ leaves[1] # leaves[3]
    /\ tree.root = RefRoot(leaves)
    /\ Len(tree.proofs) = 3
RECURSIVE RefProofFrom(_, _)
\* The reference proof of the node at position pos (from 1) of a level: per
\* level below the root one step, the sibling's digest with side R when the
\* node is a left child (its own digest when it is paired with itself) and
\* side L when it is a right child.
RefProofFrom(level, pos) ==
    IF Len(level) <= 1
    THEN <<>>
    ELSE LET step == IF pos % 2 = 1
                     THEN ProofItem("R", IF pos + 1 <= Len(level)
                                         THEN level[pos + 1]
                                         ELSE level[pos])
                     ELSE ProofItem("L", level[pos - 1])
         IN  <<step>> \o RefProofFrom(RefLevelUp(level), (pos + 1) \div 2)

\* The reference proof of leaf i of a batch.
RefProof(batch, i) ==
    RefProofFrom([k \in 1..Len(batch) |-> Sha256Hex(batch[k])], i)

\* C18: for every batch and every leaf position i, proofs[i] holds exactly
\* one step per tree level below the root (so all proofs of a batch are as
\* long as the tree is high): the sibling digest of leaf i's ancestor at that
\* level, with side R when the ancestor is a left child and L when it is a
\* right child; a self-paired node contributes one step, its own digest with
\* side R.
C18_ProofShape ==
    tree.built =>
        \A i \in 1..Len(leaves) : tree.proofs[i] = RefProof(leaves, i)
\* The proof records of block b, in the order the sealer wrote them, which
\* is the order of its snapshot.
SealedProofs(b) == SelectSeq(merkle_proofs, LAMBDA p : p.block_id = b.id)

\* The stored transaction with the given id.
TxOf(tx_id) == CHOOSE tx \in Rows(transactions) : tx.id = tx_id

\* The digest verify_receipt starts from for a stored transaction: the hash
\* of the canonical payload get_receipt puts in its receipt.
StartDigest(tx) ==
    LeafDigest(Payload(tx.wallet_id, tx.to_wallet, tx.amount, tx.currency,
                       tx.nonce, tx.timestamp))

\* The position of the level-0 sibling of the i-th node of a level of n.
Level0Sibling(i, n) ==
    IF i % 2 = 1 THEN (IF i + 1 <= n THEN i + 1 ELSE i) ELSE i - 1

\* C19: in every block the level-0 node of the i-th sealed transaction is
\* that transaction's payload digest, the value the verifier starts from:
\* the first step of each stored proof, which carries the level-0 node of
\* the neighbouring transaction, carries that transaction's payload digest.
C19_LeafIsPayloadDigest ==
    \A b \in Rows(blocks) :
        LET ps == SealedProofs(b)
        IN  Len(ps) >= 2 =>
                \A i \in 1..Len(ps) :
                    JsonLoads(ps[i].proof_json)[1].hash =
                        StartDigest(TxOf(ps[Level0Sibling(i, Len(ps))].tx_id))
\* The stored transactions whose block_id is block b, in the order of the
\* table, which is the order of the sealer's snapshot.
ConfirmedIn(b) == SelectSeq(transactions, LAMBDA tx : tx.block_id = b.id)

\* C20: every block's stored merkle_root is the root merkle_root_and_proofs
\* returns for the payload hashes of exactly the transactions whose block_id
\* is that block, in snapshot order, and the proof stored for the i-th of
\* them is the i-th proof of that call.
C20_StoredTreeIsBuiltTree ==
    \A b \in Rows(blocks) :
        LET txs == ConfirmedIn(b)
            mr  == MerkleRootAndProofs(
                       [i \in 1..Len(txs) |-> Encode(txs[i].payload_hash)])
            ps  == SealedProofs(b)
        IN  /\ b.merkle_root = mr.root
            /\ Len(ps) = Len(txs)
            /\ \A i \in 1..Len(txs) :
                  /\ ps[i].tx_id = txs[i].id
                  /\ JsonLoads(ps[i].proof_json) = mr.proofs[i]

C20_Witness ==
    /\ Len(blocks) >= 2
    /\ Len(ConfirmedIn(blocks[2])) >= SealThreshold
    /\ blocks[1].merkle_root # blocks[2].merkle_root
    /\ \E tx \in Rows(transactions) : tx.status = "pending"
RECURSIVE FoldedTo(_, _, _)
\* The digest obtained from the digest start by the first k steps of a
\* proof: current = hash(sibling || current) for dir L, and
\* current = hash(current || sibling) otherwise.
FoldedTo(start, proof, k) ==
    IF k = 0
    THEN start
    ELSE LET current == FoldedTo(start, proof, k - 1)
             sibling == proof[k].hash
         IN  IF proof[k].dir = "L"
             THEN Sha256Hex(Concat(FromHex(sibling), FromHex(current)))
             ELSE Sha256Hex(Concat(FromHex(current), FromHex(sibling)))

\* Whether the proof of receipt r leads from the hash of its payload to the
\* root it claims, digests being compared whatever the case of their hex
\* digits; a step whose hash denotes no bytes leads nowhere.
LeadsToRoot(r) ==
    /\ AllHex(r.merkle_proof)
    /\ Lower(FoldedTo(LeafDigest(r.tx), r.merkle_proof, Len(r.merkle_proof)))
           = Lower(r.block_header.merkle_root)

\* C21: verify_receipt answers valid = true if and only if the receipt's
\* signature is non-empty and folding the proof steps in order from the hash
\* of the payload gives the claimed root; with an empty proof, if and only if
\* the payload digest itself is the claimed root.
C21_ValidIffFoldIsRoot ==
    (resp.op = "verify" /\ posted.receipt # <<>>) =>
        LET r == posted.receipt[1]
        IN  /\ resp.verdict.valid <=> (r.sig_pqc # "" /\ LeadsToRoot(r))
            /\ r.merkle_proof = <<>> =>
                  (resp.verdict.valid <=>
                      /\ r.sig_pqc # ""
                      /\ Lower(r.block_header.merkle_root) = LeafDigest(r.tx))

C21_Witness ==
    /\ resp.op = "verify"
    /\ resp.verdict.valid
    /\ Len(posted.receipt[1].merkle_proof) = MaxProofLen
    /\ posted.receipt[1].merkle_proof[1].dir = "X"
    /\ posted.receipt[1].merkle_proof[MaxProofLen].dir = "L"
    /\ posted.receipt[1].block_header.merkle_root[1] = "upper"
\* C22: verify_receipt is stateless: whatever the ledger holds when a receipt
\* is verified (other transactions, blocks, proofs), the verdict is the one
\* the same receipt got the first time; and verifying changes no table.
C22_State ==
    (resp.op = "verify" /\ first.seen) => resp.verdict = first.verdict

C22_Step ==
    resp'.op = "verify" => UNCHANGED <<ledgerVars, now>>

C22_Stateless == [](C22_State) /\ [][C22_Step]_vars

C22_Witness ==
    /\ resp.op = "verify"
    /\ resp.verdict.valid
    /\ first.seen
    /\ first.blocks = 0
    /\ Len(blocks) >= 1
    /\ Len(posted.receipt[1].merkle_proof) = 1
\* The roots of the sealed blocks.
KnownRoots == {Lower(b.merkle_root) : b \in Rows(blocks)}

\* C23: the reason of an invalid verdict tells three causes apart: a missing
\* signature, a proof that does not reconstruct the claimed root, and a
\* claimed root that is the root of no sealed block; a signed receipt whose
\* proof reconstructs a root of no sealed block is answered invalid, with a
\* reason that is neither of the other two.
C23_ThreeReasons ==
    (resp.op = "verify" /\ posted.receipt # <<>>) =>
        LET r == posted.receipt[1]
        IN  /\ r.sig_pqc = "" =>
                  resp.verdict = Verdict(FALSE, <<"Missing signature">>)
            /\ (r.sig_pqc # "" /\ ~LeadsToRoot(r)) =>
                  /\ ~resp.verdict.valid
                  /\ resp.verdict.reason \in {<<"Merkle proof verification failed">>,
                                               <<"Verification error">>}
            /\ (/\ r.sig_pqc # ""
                /\ LeadsToRoot(r)
                /\ Lower(r.block_header.merkle_root) \notin KnownRoots) =>
                  /\ ~resp.verdict.valid
                  /\ resp.verdict.reason \notin {<<>>,
                                                  <<"Missing signature">>,
                                                  <<"Merkle proof verification failed">>,
                                                  <<"Verification error">>}
\* C24 as stated: any two different ordered batches of leaves (different in
\* length, content or order) have different roots; for instance [a, b, c]
\* and [a, b, c, c].
C24_RootCommitsToBatch ==
    other.built => other.root # tree.root

\* C24 amended: two different batches of the same length have different
\* roots; a batch of odd length, three or more, and the batch with its last
\* leaf repeated once more have the same root.
C24_RootCommitsToBatchOfLength ==
    other.built =>
        /\ Len(other.batch) = Len(leaves) => other.root # tree.root
        /\ (/\ Len(leaves) % 2 = 1
            /\ Len(leaves) >= 3
            /\ other.batch = Append(leaves, leaves[Len(leaves)]))
           => other.root = tree.root

C24_Witness ==
    /\ other.built
    /\ Len(leaves) = MaxPairLeaves
    /\ Len(other.batch) = MaxPairLeaves
    /\ other.batch = SwapLeaves(leaves, 1, MaxPairLeaves)
    /\ other.root # tree.root
\* C25: a submission whose nonce is not greater than every nonce stored for
\* its sender is rejected, so the nonces of one sender's stored transactions
\* are pairwise distinct and increase strictly in submission order, also
\* when two prepare calls for one wallet come before their submits.
C25_NoncesStrictlyIncrease ==
    \A i, j \in 1..Len(transactions) :
        (i < j /\ transactions[i].wallet_id = transactions[j].wallet_id)
        => transactions[i].nonce < transactions[j].nonce
\* C26: every submission is assigned a transaction id that no other stored
\* transaction has, and every block an id that no other block has, also
\* when the clock has not advanced between two calls of generate_id.
C26_Step ==
    /\ resp'.op = "submit" =>
          \A tx \in Rows(transactions) : tx.id # resp'.tx_id
    /\ Len(blocks') > Len(blocks) =>
          \A b \in Rows(blocks) : b.id # blocks'[Len(blocks')].id

C26_UniqueIds ==
    /\ [](Unique(IdColumn(transactions)) /\ Unique(IdColumn(blocks)))
    /\ [][C26_Step]_vars
\* C27: a seal attempt that fails is retried before the submission that
\* triggered it hears of a failure: a submission that has stored its
\* transaction and met at most one storage failure answers 200.
C27_Step ==
    (/\ resp'.op = "submit"
     /\ Len(transactions') = Len(transactions) + 1
     /\ faults' <= faults + 1)
    => resp'.http.status = 200

C27_SealRetried == [][C27_Step]_vars
\* The transactions a block confirms.
ConfirmedBy(b, txs) == {tx \in Rows(txs) : tx.block_id = b.id}

\* Fewer than SealThreshold transactions are pending and every block
\* confirms exactly SealThreshold transactions.
Regular(txs, bs) ==
    /\ Len(PendingPositions(txs)) < SealThreshold
    /\ \A b \in Rows(bs) : Cardinality(ConfirmedBy(b, txs)) = SealThreshold

\* C28: in a serial execution without seal failures, after every completed
\* submit_transaction fewer than 3 transactions are pending and every block
\* confirms exactly 3 transactions; and a successful seal leaves no
\* transaction pending: it confirms, in its block, every transaction that
\* was pending and the one just submitted.
C28_Step ==
    (Regular(transactions, blocks) /\ ~SealFailedStep) =>
        /\ Regular(transactions', blocks')
        /\ Len(blocks') > Len(blocks) =>
              /\ PendingPositions(transactions') = <<>>
              /\ \A i \in 1..Len(transactions') :
                    (i > Len(transactions) \/ transactions[i].status = "pending")
                    => transactions'[i].block_id = blocks'[Len(blocks')].id

C28_SerialBatches ==
    /\ (transactions = <<>> /\ blocks = <<>>)
    /\ [][C28_Step]_vars

C28_Witness ==
    /\ Len(blocks) = 2
    /\ Len(transactions) = 2 * SealThreshold
    /\ PendingPositions(transactions) = <<>>
    /\ faults = 0
    /\ resp.op = "submit"
    /\ resp.http.status = 200

\* A transaction turns from pending to confirmed only in a submission that
\* finds, its own transaction included, at least SealThreshold pending.
C29_Step ==
    \A i \in 1..Len(transactions) :
        (transactions[i].status = "pending" /\ transactions'[i].status = "confirmed")
        => /\ resp'.op = "submit"
           /\ Len(transactions') = Len(transactions) + 1
           /\ Len(PendingPositions(transactions)) + 1 >= SealThreshold

\* A transaction followed by two stored submissions is confirmed.
C29_BySecondSubmission ==
    \A i \in 1..Len(transactions) :
        i + 2 <= Len(transactions) => transactions[i].status = "confirmed"

\* C29: a pending transaction is confirmed only as part of a submission that
\* finds at least 3 pending; and while submissions keep arriving and seals
\* succeed, every stored transaction is confirmed at the latest by the second
\* stored submission after its own: no transaction is still pending once two
\* later submissions are stored, so each one is confirmed in the end.
C29_EventuallyConfirmed ==
    /\ [][C29_Step]_vars
    /\ [](C29_BySecondSubmission)

C29_Witness ==
    /\ Len(transactions) = 2 * SealThreshold
    /\ Len(blocks) = 2
    /\ transactions[SealThreshold + 1].block_id = blocks[2].id
    /\ transactions[1].block_id = blocks[1].id
    /\ resp.op = "submit"

\* A step stores a transaction exactly when it is a submission that answers
\* 200 with the id of the transaction it stored.
C30_Step ==
    /\ Len(transactions') # Len(transactions)
       => /\ Len(transactions') = Len(transactions) + 1
          /\ resp'.op = "submit"
          /\ resp'.http.status = 200
          /\ resp'.tx_id = transactions'[Len(transactions')].id
    /\ (resp' # resp /\ resp'.op = "submit" /\ resp'.http.status = 200)
       => Len(transactions') = Len(transactions) + 1

\* C30: submit_transaction reports success for exactly the transactions it
\* adds to the ledger: a submission that ends with an error, the error of the
\* seal it triggered included, has stored no transaction.
C30_SuccessIffStored == [][C30_Step]_vars
====
